---- MODULE Spec2Model ----
(***************************************************************************)
(* Model of the parsing and aggregation routines of streamlit_app.py:      *)
(*   process_swatmf_data   - line scan of the flow file                    *)
(*   read_recharge_file    - line scan of the recharge file and reshape    *)
(*   compute_monthly_mean  - per-month nanmean of recharge grids           *)
(*   monthly_stats         - groupby(Month, Row, Column) mean / std        *)
(*                                                                         *)
(* Text is modelled character by character: a line is a sequence of        *)
(* one-character strings, and split / strip / int / float are computed on  *)
(* the characters.  Floats are exact rationals <<num, den>> (den > 0) and   *)
(* NaN is <<0, 0>>; rounding is not modelled.  An optional integer (the     *)
(* None of Python) is the empty sequence, and Some(n) is <<n>>.            *)
(***************************************************************************)
EXTENDS Integers, Sequences, FiniteSets, TLC

VARIABLES
    lines,          \* the lines of the open file read so far, in order
    pc,             \* "scan" in the for loop, "done" after return, else the exception that propagated
    current_month,  \* optional integer
    current_year,   \* optional integer
    data,           \* process_swatmf_data: list of records; read_recharge_file: dict key -> list of rows
    reading_data,   \* read_recharge_file's flag
    result,         \* the value returned (df, recharge dict, mean dict)
    todo,           \* compute_monthly_mean: keys of the input not yet visited by the first loop
    mean_data,      \* compute_monthly_mean: month -> list of grids, then month -> mean grid
    monthly_stats,  \* the aggregated frame: set of [Month, Row, Column, mean, std] rows
    restats         \* the frame obtained by aggregating monthly_stats again

vars == <<lines, pc, current_month, current_year, data, reading_data, result,
          todo, mean_data, monthly_stats, restats>>

----------------------------------------------------------------------------
(* Bounds *)

MaxLines == 3          \* lines in a flow file
MaxRechargeLines == 4  \* lines in a recharge file
GridRows == 2          \* grid_shape[0], scaled down from 68
GridCols == 3          \* grid_shape[1], scaled down from 94
MaxYears == 2          \* years per month in the input of compute_monthly_mean
MaxRecords == 3        \* records in the frame given to the aggregation

----------------------------------------------------------------------------
(* Python values *)

None == <<>>
Some(n) == <<n>>
NaN == <<0, 0>>

RECURSIVE GCD(_, _)
GCD(a, b) == IF b = 0 THEN a ELSE GCD(b, a % b)

Abs(n) == IF n < 0 THEN -n ELSE n

\* the rational n/d in lowest terms, d > 0
Rat(n, d) ==
    LET g == GCD(Abs(n), d)
    IN  <<n \div g, d \div g>>

IsNaN(x) == x[2] = 0

RatAdd(x, y) == Rat(x[1] * y[2] + y[1] * x[2], x[2] * y[2])
RatSub(x, y) == Rat(x[1] * y[2] - y[1] * x[2], x[2] * y[2])
RatMul(x, y) == Rat(x[1] * y[1], x[2] * y[2])
RatDivInt(x, n) == Rat(x[1], x[2] * n)

----------------------------------------------------------------------------
(* str methods *)

Whitespace == {" ", "\t", "\n"}
Digits == <<"0", "1", "2", "3", "4", "5", "6", "7", "8", "9">>

IsDigit(c) == \E i \in 1..10 : Digits[i] = c
DigitVal(c) == (CHOOSE i \in 1..10 : Digits[i] = c) - 1

\* sub in s
Contains(s, sub) ==
    \E i \in 1..(Len(s) - Len(sub) + 1) : SubSeq(s, i, i + Len(sub) - 1) = sub

\* s.startswith(p)
StartsWith(s, p) == Len(s) >= Len(p) /\ SubSeq(s, 1, Len(p)) = p

RECURSIVE LStrip(_)
LStrip(s) == IF s # <<>> /\ Head(s) \in Whitespace THEN LStrip(Tail(s)) ELSE s

RECURSIVE RStrip(_)
RStrip(s) ==
    IF s # <<>> /\ s[Len(s)] \in Whitespace THEN RStrip(SubSeq(s, 1, Len(s) - 1)) ELSE s

\* s.strip()
Strip(s) == RStrip(LStrip(s))

RECURSIVE SplitFrom(_, _, _, _)
SplitFrom(s, i, cur, acc) ==
    LET flushed == IF cur = <<>> THEN acc ELSE Append(acc, cur)
    IN  IF i > Len(s) THEN flushed
        ELSE IF s[i] \in Whitespace THEN SplitFrom(s, i + 1, <<>>, flushed)
        ELSE SplitFrom(s, i + 1, Append(cur, s[i]), acc)

\* s.split(): the maximal runs of non-whitespace characters
Split(s) == SplitFrom(s, 1, <<>>, <<>>)

RECURSIVE DigitsVal(_)
DigitsVal(ds) ==
    IF ds = <<>> THEN 0 ELSE 10 * DigitsVal(SubSeq(ds, 1, Len(ds) - 1)) + DigitVal(ds[Len(ds)])

AllDigits(ds) == ds # <<>> /\ \A i \in 1..Len(ds) : IsDigit(ds[i])

HasSign(tok) == tok # <<>> /\ tok[1] \in {"+", "-"}
Unsigned(tok) == IF HasSign(tok) THEN Tail(tok) ELSE tok
SignOf(tok) == IF tok # <<>> /\ tok[1] = "-" THEN -1 ELSE 1

\* int(tok) succeeds: an optional sign and one or more decimal digits
IsInt(tok) == AllDigits(Unsigned(tok))
IntVal(tok) == SignOf(tok) * DigitsVal(Unsigned(tok))

RECURSIVE Pow10(_)
Pow10(n) == IF n = 0 THEN 1 ELSE 10 * Pow10(n - 1)

DotAt(u) == IF \E i \in 1..Len(u) : u[i] = "." THEN CHOOSE i \in 1..Len(u) : u[i] = "." ELSE 0

\* float(tok) succeeds: "nan", or an optional sign, digits and an optional fraction
IsFloat(tok) ==
    LET u == Unsigned(tok)
        d == DotAt(u)
    IN  \/ u = <<"n", "a", "n">>
        \/ d = 0 /\ AllDigits(u)
        \/ d > 0 /\ AllDigits(SubSeq(u, 1, d - 1)) /\ AllDigits(SubSeq(u, d + 1, Len(u)))

FloatVal(tok) ==
    LET u == Unsigned(tok)
        d == DotAt(u)
    IN  IF u = <<"n", "a", "n">> THEN NaN
        ELSE IF d = 0 THEN Rat(SignOf(tok) * DigitsVal(u), 1)
        ELSE Rat(SignOf(tok) * DigitsVal(SubSeq(u, 1, d - 1) \o SubSeq(u, d + 1, Len(u))),
                 Pow10(Len(u) - d))

----------------------------------------------------------------------------
(* The words and lines of the input files *)

SP == <<" ">>
W_month == <<"m", "o", "n", "t", "h", ":">>
W_year == <<"y", "e", "a", "r", ":">>
W_Layer == <<"L", "a", "y", "e", "r">>
W_Grid == <<"G", "r", "i", "d">>
W_data == <<"d", "a", "t", "a", ":">>
W_Monthly == <<"M", "o", "n", "t", "h", "l", "y">>
W_Averaged == <<"A", "v", "e", "r", "a", "g", "e", "d">>
W_Recharge == <<"R", "e", "c", "h", "a", "r", "g", "e">>
W_Values == <<"V", "a", "l", "u", "e", "s">>
W_1990 == <<"1", "9", "9", "0">>
W_1991 == <<"1", "9", "9", "1">>
W_x == <<"x">>

RECURSIVE Join(_)
Join(ws) == IF ws = <<>> THEN <<>>
            ELSE IF Len(ws) = 1 THEN ws[1]
            ELSE ws[1] \o SP \o Join(Tail(ws))

\* the header line "month: <m> year: <y>"
HeaderLine(m, y) == Join(<<W_month, m, W_year, y>>)

\* n copies of the token tok separated by single spaces
RowLine(tok, n) == Join([i \in 1..n |-> tok])

FlowLines ==
    { HeaderLine(<<"3">>, W_1990),
      HeaderLine(<<"4">>, W_1991),
      HeaderLine(<<"4">>, W_x),
      HeaderLine(W_x, W_1991),
      Join(<<W_month, <<"4">> >>),
      W_month,
      Join(<<W_Layer, <<"R", "o", "w">>, <<"C", "o", "l">>, <<"R", "a", "t", "e">> >>),
      <<>>,
      <<" ", "\n">>,
      Join(<<<<"1">>, <<"5">>, <<"1", "0">>, <<"2", ".", "5">> >>) \o <<"\n">>,
      Join(<<<<"1">>, <<"5">>, <<"1", "0">>, <<"-", "3">> >>),
      Join(<<<<"1">>, <<"5">>, <<"1", "0">>, W_x>>),
      Join(<<<<"1">>, <<"2", ".", "5">>, <<"1", "0">>, <<"4">> >>),
      Join(<<<<"1">>, <<"5">>, <<"1", "0">> >>),
      Join(<<<<"1">>, <<"5">>, <<"1", "0">>, <<"4">>, <<"7">> >>) }

----------------------------------------------------------------------------
(* process_swatmf_data *)

\* the statements of the try block of a 'month:' line, in order: parts[1],
\* int(), assignment of current_month, parts[3], int(), assignment of
\* current_year; exc is the exception that ended the block ("none" if none).
\* read_recharge_file's try block starts with the same two statements.
ParseMonthYear(parts, cm, cy) ==
    IF Len(parts) < 2 THEN [month |-> cm, year |-> cy, exc |-> "IndexError"]
    ELSE IF ~IsInt(parts[2]) THEN [month |-> cm, year |-> cy, exc |-> "ValueError"]
    ELSE IF Len(parts) < 4
        THEN [month |-> Some(IntVal(parts[2])), year |-> cy, exc |-> "IndexError"]
    ELSE IF ~IsInt(parts[4])
        THEN [month |-> Some(IntVal(parts[2])), year |-> cy, exc |-> "ValueError"]
    ELSE [month |-> Some(IntVal(parts[2])), year |-> Some(IntVal(parts[4])), exc |-> "none"]

\* a handler that forgets IndexError
HeaderCaught_ValueOnly == {"ValueError"}

\* except (ValueError, IndexError)
HeaderCaught == {"ValueError", "IndexError"}

\* except ValueError
DataCaught == {"ValueError"}

\* if len(parts) == 4
HasDataShape(parts) == Len(parts) = 4

\* a record with row and column exchanged
DataRecord_Swapped(cy, cm, parts) ==
    <<cy, cm, IntVal(parts[1]), IntVal(parts[3]), IntVal(parts[2]), FloatVal(parts[4])>>

\* the row appended to data
DataRecord(cy, cm, parts) ==
    <<cy, cm, IntVal(parts[1]), IntVal(parts[2]), IntVal(parts[3]), FloatVal(parts[4])>>

\* the try block of a data line: the exception it ends with
ParseDataExc(parts) ==
    IF \E i \in 1..3 : i > Len(parts) THEN "IndexError"
    ELSE IF \E i \in 1..3 : ~IsInt(parts[i]) THEN "ValueError"
    ELSE IF Len(parts) < 4 THEN "IndexError"
    ELSE IF ~IsFloat(parts[4]) THEN "ValueError"
    ELSE "none"

\* where control is after a try block that ended with exc
AfterExc(exc, caught) == IF exc = "none" \/ exc \in caught THEN "scan" ELSE exc

InitFlow ==
    /\ lines = <<>>
    /\ pc = "scan"
    /\ current_month = None
    /\ current_year = None
    /\ data = <<>>
    /\ reading_data = FALSE
    /\ result = <<>>
    /\ todo = {}
    /\ mean_data = <<>>
    /\ monthly_stats = {}
    /\ restats = {}

\* if 'month:' in line
FlowMonthLine ==
    \E line \in FlowLines :
        /\ pc = "scan" /\ Len(lines) < MaxLines
        /\ Contains(line, W_month)
        /\ LET h == ParseMonthYear(Split(line), current_month, current_year)
           IN  /\ current_month' = h.month
               /\ current_year' = h.year
               /\ pc' = AfterExc(h.exc, HeaderCaught)
        /\ lines' = Append(lines, line)
        /\ UNCHANGED <<data, reading_data, result, todo, mean_data, monthly_stats, restats>>

\* elif 'Layer' in line
FlowLayerLine ==
    \E line \in FlowLines :
        /\ pc = "scan" /\ Len(lines) < MaxLines
        /\ ~Contains(line, W_month) /\ Contains(line, W_Layer)
        /\ lines' = Append(lines, line)
        /\ UNCHANGED <<pc, current_month, current_year, data, reading_data, result,
                       todo, mean_data, monthly_stats, restats>>

\* elif line.strip() == ''
FlowBlankLine ==
    \E line \in FlowLines :
        /\ pc = "scan" /\ Len(lines) < MaxLines
        /\ ~Contains(line, W_month) /\ ~Contains(line, W_Layer)
        /\ Strip(line) = <<>>
        /\ lines' = Append(lines, line)
        /\ UNCHANGED <<pc, current_month, current_year, data, reading_data, result,
                       todo, mean_data, monthly_stats, restats>>

\* else
FlowDataLine ==
    \E line \in FlowLines :
        /\ pc = "scan" /\ Len(lines) < MaxLines
        /\ ~Contains(line, W_month) /\ ~Contains(line, W_Layer)
        /\ Strip(line) # <<>>
        /\ LET parts == Split(line)
               exc == ParseDataExc(parts)
           IN  IF HasDataShape(parts)
               THEN /\ data' = IF exc = "none"
                               THEN Append(data, DataRecord(current_year, current_month, parts))
                               ELSE data
                    /\ pc' = AfterExc(exc, DataCaught)
               ELSE UNCHANGED <<data, pc>>
        /\ lines' = Append(lines, line)
        /\ UNCHANGED <<current_month, current_year, reading_data, result,
                       todo, mean_data, monthly_stats, restats>>

\* end of file: df = pd.DataFrame(data, ...); return df
FlowReturn ==
    /\ pc = "scan"
    /\ result' = data
    /\ pc' = "done"
    /\ UNCHANGED <<lines, current_month, current_year, data, reading_data,
                   todo, mean_data, monthly_stats, restats>>

NextFlow == FlowMonthLine \/ FlowLayerLine \/ FlowBlankLine \/ FlowDataLine \/ FlowReturn

SpecFlow == InitFlow /\ [][NextFlow]_vars

----------------------------------------------------------------------------
(* read_recharge_file *)

RechargeLines ==
    { HeaderLine(<<"3">>, W_1990),
      HeaderLine(<<"4">>, W_1991),
      HeaderLine(<<"4">>, W_x),
      W_month,
      Join(<<W_Grid, W_data>>),
      Join(<<W_Grid, W_data, W_month>>),
      Join(<<W_Monthly, W_Averaged, W_Recharge, W_Values>>),
      <<>>,
      <<" ">> \o RowLine(<<"2", ".", "5">>, GridCols) \o <<"\n">>,
      RowLine(<<"1">>, GridRows),
      Join(<<<<"1">>, W_x>>),
      <<"7">> }

W_GridData == Join(<<W_Grid, W_data>>)
W_MonthlyAveraged == Join(<<W_Monthly, W_Averaged, W_Recharge, W_Values>>)

\* data[key] = value
DictSet(d, key, value) ==
    [k \in DOMAIN d \cup {key} |-> IF k = key THEN value ELSE d[k]]

\* an except branch that leaves reading_data alone
RechargeHeader_KeepsReading(parts, cm, cy, d, rd) ==
    LET h == ParseMonthYear(parts, cm, cy)
    IN  IF h.exc = "none"
        THEN [month |-> h.month, year |-> h.year,
              data |-> DictSet(d, <<h.year, h.month>>, <<>>), reading |-> TRUE, exc |-> "none"]
        ELSE [month |-> h.month, year |-> h.year, data |-> d, reading |-> rd, exc |-> h.exc]

\* a header that keeps the accumulator of a key it has seen (setdefault)
RechargeHeader_KeepsRows(parts, cm, cy, d, rd) ==
    LET h == ParseMonthYear(parts, cm, cy)
        key == <<h.year, h.month>>
    IN  IF h.exc = "none"
        THEN [month |-> h.month, year |-> h.year,
              data |-> IF key \in DOMAIN d THEN d ELSE DictSet(d, key, <<>>),
              reading |-> TRUE, exc |-> "none"]
        ELSE [month |-> h.month, year |-> h.year, data |-> d, reading |-> FALSE, exc |-> h.exc]

\* the try/except of a 'month:' line: the two assignments, then the new empty
\* accumulator and reading_data = True; the except branch sets reading_data = False
RechargeHeader(parts, cm, cy, d, rd) ==
    LET h == ParseMonthYear(parts, cm, cy)
    IN  IF h.exc = "none"
        THEN [month |-> h.month, year |-> h.year,
              data |-> DictSet(d, <<h.year, h.month>>, <<>>), reading |-> TRUE, exc |-> "none"]
        ELSE [month |-> h.month, year |-> h.year, data |-> d, reading |-> FALSE, exc |-> h.exc]

\* except (IndexError, ValueError)
RechargeHeaderCaught == {"IndexError", "ValueError"}

\* except ValueError
RowCaught == {"ValueError"}

\* a failed row that also ends the block
RowAfterExc_StopsReading(exc, rd) == exc = "none"

\* reading_data after the try block of a row line: no branch assigns it
RowAfterExc(exc, rd) == rd

\* values = [float(v) for v in parts]
RowValues(parts) == [i \in 1..Len(parts) |-> FloatVal(parts[i])]

\* the try block of a row line: the exception it ends with
RowExc(parts, key, d) ==
    IF \E i \in 1..Len(parts) : ~IsFloat(parts[i]) THEN "ValueError"
    ELSE IF key \notin DOMAIN d THEN "KeyError"
    ELSE "none"

InitRecharge ==
    /\ lines = <<>>
    /\ pc = "scan"
    /\ current_month = None
    /\ current_year = None
    /\ data = <<>>
    /\ reading_data = FALSE
    /\ result = <<>>
    /\ todo = {}
    /\ mean_data = <<>>
    /\ monthly_stats = {}
    /\ restats = {}

IsMarker(line) == StartsWith(line, W_GridData) \/ StartsWith(line, W_MonthlyAveraged)

\* if 'month:' in line
RechargeMonthLine ==
    \E raw \in RechargeLines :
        LET line == Strip(raw)
        IN  /\ pc = "scan" /\ Len(lines) < MaxRechargeLines
            /\ Contains(line, W_month)
            /\ LET h == RechargeHeader(Split(line), current_month, current_year,
                                       data, reading_data)
               IN  /\ current_month' = h.month
                   /\ current_year' = h.year
                   /\ data' = h.data
                   /\ reading_data' = h.reading
                   /\ pc' = AfterExc(h.exc, RechargeHeaderCaught)
            /\ lines' = Append(lines, raw)
            /\ UNCHANGED <<result, todo, mean_data, monthly_stats, restats>>

\* elif line.startswith("Grid data:") or line.startswith("Monthly Averaged Recharge Values")
RechargeMarkerLine ==
    \E raw \in RechargeLines :
        LET line == Strip(raw)
        IN  /\ pc = "scan" /\ Len(lines) < MaxRechargeLines
            /\ ~Contains(line, W_month)
            /\ IsMarker(line)
            /\ lines' = Append(lines, raw)
            /\ UNCHANGED <<pc, current_month, current_year, data, reading_data, result,
                           todo, mean_data, monthly_stats, restats>>

\* elif not line
RechargeBlankLine ==
    \E raw \in RechargeLines :
        LET line == Strip(raw)
        IN  /\ pc = "scan" /\ Len(lines) < MaxRechargeLines
            /\ ~Contains(line, W_month) /\ ~IsMarker(line)
            /\ line = <<>>
            /\ lines' = Append(lines, raw)
            /\ UNCHANGED <<pc, current_month, current_year, data, reading_data, result,
                           todo, mean_data, monthly_stats, restats>>

\* elif reading_data
RechargeRowLine ==
    \E raw \in RechargeLines :
        LET line == Strip(raw)
            parts == Split(line)
            key == <<current_year, current_month>>
            exc == RowExc(parts, key, data)
        IN  /\ pc = "scan" /\ Len(lines) < MaxRechargeLines
            /\ ~Contains(line, W_month) /\ ~IsMarker(line)
            /\ line # <<>>
            /\ reading_data
            /\ IF Len(parts) > 1
               THEN /\ data' = IF exc = "none"
                               THEN [data EXCEPT ![key] = Append(@, RowValues(parts))]
                               ELSE data
                    /\ pc' = AfterExc(exc, RowCaught)
                    /\ reading_data' = RowAfterExc(exc, reading_data)
               ELSE UNCHANGED <<data, pc, reading_data>>
            /\ lines' = Append(lines, raw)
            /\ UNCHANGED <<current_month, current_year, result,
                           todo, mean_data, monthly_stats, restats>>

\* else: reading_data = False
RechargeOtherLine ==
    \E raw \in RechargeLines :
        LET line == Strip(raw)
        IN  /\ pc = "scan" /\ Len(lines) < MaxRechargeLines
            /\ ~Contains(line, W_month) /\ ~IsMarker(line)
            /\ line # <<>>
            /\ ~reading_data
            /\ reading_data' = FALSE
            /\ lines' = Append(lines, raw)
            /\ UNCHANGED <<pc, current_month, current_year, data, result,
                           todo, mean_data, monthly_stats, restats>>

\* grid_shape = (68, 94), scaled to the bounds
grid_shape == <<GridRows, GridCols>>

\* np.array(rows) of a list of lists of floats: a 2-D array when the rows
\* have one length (a 1-D array of size 0 for the empty list); rows of
\* different lengths make no array (ValueError)
IsRagged(rows) == \E i, j \in 1..Len(rows) : Len(rows[i]) # Len(rows[j])

\* grid_data.size
ArraySize(rows) == IF rows = <<>> THEN 0 ELSE Len(rows) * Len(rows[1])

RECURSIVE Flatten(_)
Flatten(rows) == IF rows = <<>> THEN <<>> ELSE Head(rows) \o Flatten(Tail(rows))

\* grid_data.reshape(grid_shape), defined when the sizes agree: the values in
\* row-major order cut into shape[0] rows of shape[1]
Reshape(rows, shape) ==
    LET flat == Flatten(rows)
    IN  [i \in 1..shape[1] |-> [j \in 1..shape[2] |-> flat[(i - 1) * shape[2] + j]]]

\* np.full(grid_shape, np.nan)
FullNaN(shape) == [i \in 1..shape[1] |-> [j \in 1..shape[2] |-> NaN]]

\* the body of the final loop raises for this accumulator
ReshapeRaises(rows) ==
    \/ IsRagged(rows)
    \/ ArraySize(rows) # 0 /\ ArraySize(rows) # grid_shape[1] * grid_shape[2]

\* the grid the final loop stores for this accumulator
GridOf(rows) == IF ArraySize(rows) # 0 THEN Reshape(rows, grid_shape) ELSE FullNaN(grid_shape)

\* end of file, the final loop succeeds for every key: return data.  The
\* grids are recorded in result and the accumulators are kept in data.
RechargeReturn ==
    /\ pc = "scan"
    /\ \A k \in DOMAIN data : ~ReshapeRaises(data[k])
    /\ result' = [k \in DOMAIN data |-> GridOf(data[k])]
    /\ pc' = "done"
    /\ UNCHANGED <<lines, current_month, current_year, data, reading_data,
                   todo, mean_data, monthly_stats, restats>>

\* end of file, np.array or reshape raises ValueError for some key
RechargeReshapeError ==
    /\ pc = "scan"
    /\ \E k \in DOMAIN data : ReshapeRaises(data[k])
    /\ pc' = "ValueError"
    /\ UNCHANGED <<lines, current_month, current_year, data, reading_data, result,
                   todo, mean_data, monthly_stats, restats>>

NextRecharge ==
    \/ RechargeMonthLine
    \/ RechargeMarkerLine
    \/ RechargeBlankLine
    \/ RechargeRowLine
    \/ RechargeOtherLine
    \/ RechargeReturn
    \/ RechargeReshapeError

SpecRecharge == InitRecharge /\ [][NextRecharge]_vars

----------------------------------------------------------------------------
(* compute_monthly_mean *)

\* the years of the inputs
MeanYears == 2020..(2020 + MaxYears - 1)
MeanMonths == {1, 2}

\* the grid with value a in cell (1, 1) and b in every other cell
GridWith(a, b) ==
    [i \in 1..GridRows |-> [j \in 1..GridCols |-> IF i = 1 /\ j = 1 THEN a ELSE b]]

\* the grids of the inputs: all 5, all missing, and two mixed grids
MeanGrids ==
    { GridWith(<<5, 1>>, <<5, 1>>), GridWith(NaN, NaN),
      GridWith(<<2, 1>>, NaN), GridWith(NaN, <<2, 1>>) }

MeanKeys == {<<Some(y), Some(m)>> : y \in MeanYears, m \in MeanMonths}

\* the dicts read_recharge_file can return over these keys and grids
MeanInputs ==
    UNION { [ks -> MeanGrids] : ks \in SUBSET MeanKeys }

KeyBefore(a, b) == a[1][1] < b[1][1] \/ (a[1][1] = b[1][1] /\ a[2][1] < b[2][1])

\* the next key of data.items(): a dict is iterated in insertion order, which
\* for a recharge file is the order of its headers; the model visits the keys
\* by (year, month)
NextKey(keys) == CHOOSE k \in keys : \A o \in keys \ {k} : KeyBefore(k, o)

RECURSIVE SumSeq(_)
SumSeq(xs) == IF xs = <<>> THEN <<0, 1>> ELSE RatAdd(Head(xs), SumSeq(Tail(xs)))

\* the values of xs that are not NaN, in order
RECURSIVE DropNaN(_)
DropNaN(xs) ==
    IF xs = <<>> THEN <<>>
    ELSE IF IsNaN(Head(xs)) THEN DropNaN(Tail(xs))
    ELSE <<Head(xs)>> \o DropNaN(Tail(xs))

\* np.mean of one cell: a NaN among the values makes the mean NaN
CellNanMean_Propagates(xs) ==
    IF \E i \in 1..Len(xs) : IsNaN(xs[i]) THEN NaN
    ELSE RatDivInt(SumSeq(xs), Len(xs))

\* np.nanmean of one cell over the stacked grids
CellNanMean(xs) ==
    LET vs == DropNaN(xs)
    IN  IF vs = <<>> THEN NaN ELSE RatDivInt(SumSeq(vs), Len(vs))

\* np.nanmean(np.stack(grids, axis=0), axis=0)
NanMean(grids) ==
    [i \in 1..Len(grids[1]) |->
        [j \in 1..Len(grids[1][1]) |->
            CellNanMean([g \in 1..Len(grids) |-> grids[g][i][j]])]]

InitMean ==
    /\ data \in MeanInputs
    /\ todo = DOMAIN data
    /\ pc = "collect"
    /\ mean_data = <<>>
    /\ result = <<>>
    /\ lines = <<>>
    /\ current_month = None
    /\ current_year = None
    /\ reading_data = FALSE
    /\ monthly_stats = {}
    /\ restats = {}

\* one iteration of the first loop: mean_data[month].append(grid)
MeanCollect ==
    /\ pc = "collect" /\ todo # {}
    /\ LET k == NextKey(todo)
           month == k[2]
       IN  /\ mean_data' = DictSet(mean_data, month,
                                   IF month \in DOMAIN mean_data
                                   THEN Append(mean_data[month], data[k])
                                   ELSE <<data[k]>>)
           /\ todo' = todo \ {k}
    /\ UNCHANGED <<lines, pc, current_month, current_year, data, reading_data, result,
                   monthly_stats, restats>>

\* the first loop ends and the second starts over the months collected
MeanStartReduce ==
    /\ pc = "collect" /\ todo = {}
    /\ pc' = "reduce"
    /\ todo' = DOMAIN mean_data
    /\ UNCHANGED <<lines, current_month, current_year, data, reading_data, result,
                   mean_data, monthly_stats, restats>>

\* one iteration of the second loop: mean_data[month] = np.nanmean(...)
MeanReduce ==
    /\ pc = "reduce" /\ todo # {}
    /\ \E month \in todo :
          /\ \A o \in todo : month[1] <= o[1]    \* the model visits the months in order
          /\ mean_data' = [mean_data EXCEPT ![month] = NanMean(@)]
          /\ todo' = todo \ {month}
    /\ UNCHANGED <<lines, pc, current_month, current_year, data, reading_data, result,
                   monthly_stats, restats>>

\* return mean_data
MeanReturn ==
    /\ pc = "reduce" /\ todo = {}
    /\ result' = mean_data
    /\ pc' = "done"
    /\ UNCHANGED <<lines, current_month, current_year, data, reading_data, todo,
                   mean_data, monthly_stats, restats>>

NextMean == MeanCollect \/ MeanStartReduce \/ MeanReduce \/ MeanReturn

SpecMean == InitMean /\ [][NextMean]_vars

----------------------------------------------------------------------------
(* monthly_stats = df.groupby(['Month', 'Row', 'Column'])['Rate'].agg(['mean', 'std']) *)

\* the records of the frames given to the aggregation: one year, one layer,
\* a month that may be undefined, two cells and three rates
AggRecords ==
    { <<Some(1990), m, 1, 5, c, r>> :
        m \in {None, Some(3)}, c \in {10, 11}, r \in {NaN, <<2, 1>>, <<5, 1>>} }

RECURSIVE SeqsUpTo(_, _)
SeqsUpTo(S, n) ==
    IF n = 0 THEN {<<>>}
    ELSE LET shorter == SeqsUpTo(S, n - 1)
         IN  shorter \cup {Append(q, x) : q \in {t \in shorter : Len(t) = n - 1}, x \in S}

\* the columns Month, Row, Column and Rate of df
FrameOf(records) ==
    [i \in 1..Len(records) |->
        [Month |-> records[i][2], Row |-> records[i][4],
         Column |-> records[i][5], Rate |-> records[i][6]]]

GroupKey(row) == <<row.Month, row.Row, row.Column>>

\* the group keys of a frame; groupby drops the rows whose key has a missing
\* value (dropna=True)
GroupKeys(frame) ==
    {GroupKey(frame[i]) : i \in {n \in 1..Len(frame) : frame[n].Month # None}}

\* the rates of one group, in frame order
RECURSIVE GroupRates(_, _)
GroupRates(frame, key) ==
    IF frame = <<>> THEN <<>>
    ELSE IF GroupKey(Head(frame)) = key
        THEN <<Head(frame).Rate>> \o GroupRates(Tail(frame), key)
    ELSE GroupRates(Tail(frame), key)

\* 'mean' of a group: NaN is skipped, an empty group gives NaN
GroupMean(xs) ==
    LET vs == DropNaN(xs)
    IN  IF vs = <<>> THEN NaN ELSE RatDivInt(SumSeq(vs), Len(vs))

\* the sum of the squared deviations of vs from m
RECURSIVE SumSqDev(_, _)
SumSqDev(vs, m) ==
    IF vs = <<>> THEN <<0, 1>>
    ELSE LET d == RatSub(Head(vs), m)
         IN  RatAdd(RatMul(d, d), SumSqDev(Tail(vs), m))

\* a population standard deviation (ddof=0)
GroupStd_Population(xs) ==
    LET vs == DropNaN(xs)
    IN  IF vs = <<>> THEN NaN
        ELSE RatDivInt(SumSqDev(vs, GroupMean(vs)), Len(vs))

\* 'std' of a group: the sample standard deviation (ddof=1) of the values
\* that are not NaN, NaN with fewer than two of them.  The model keeps the
\* square of the standard deviation, which is rational.
GroupStd(xs) ==
    LET vs == DropNaN(xs)
    IN  IF Len(vs) < 2 THEN NaN
        ELSE RatDivInt(SumSqDev(vs, GroupMean(vs)), Len(vs) - 1)

\* groupby(...)['Rate'].agg(['mean', 'std']).reset_index(): one row per group
Aggregate(frame) ==
    { [Month |-> k[1], Row |-> k[2], Column |-> k[3],
       mean |-> GroupMean(GroupRates(frame, k)),
       std |-> GroupStd(GroupRates(frame, k))] : k \in GroupKeys(frame) }

RECURSIVE SetToSeq(_)
SetToSeq(S) ==
    IF S = {} THEN <<>>
    ELSE LET x == CHOOSE x \in S : TRUE
         IN  <<x>> \o SetToSeq(S \ {x})

\* the aggregated frame read as a frame of rates: 'Average Rate' is the Rate
StatsAsFrame(stats) ==
    LET q == SetToSeq(stats)
    IN  [i \in 1..Len(q) |->
            [Month |-> q[i].Month, Row |-> q[i].Row, Column |-> q[i].Column,
             Rate |-> q[i].mean]]

InitAgg ==
    /\ result \in SeqsUpTo(AggRecords, MaxRecords)
    /\ pc = "aggregate"
    /\ monthly_stats = {}
    /\ restats = {}
    /\ lines = <<>>
    /\ current_month = None
    /\ current_year = None
    /\ data = <<>>
    /\ reading_data = FALSE
    /\ todo = {}
    /\ mean_data = <<>>

\* monthly_stats = df.groupby(...)['Rate'].agg(['mean', 'std']).reset_index()
AggregateFlow ==
    /\ pc = "aggregate"
    /\ monthly_stats' = Aggregate(FrameOf(result))
    /\ pc' = "reaggregate"
    /\ UNCHANGED <<lines, current_month, current_year, data, reading_data, result,
                   todo, mean_data, restats>>

\* the same aggregation applied to monthly_stats
Reaggregate ==
    /\ pc = "reaggregate"
    /\ restats' = Aggregate(StatsAsFrame(monthly_stats))
    /\ pc' = "done"
    /\ UNCHANGED <<lines, current_month, current_year, data, reading_data, result,
                   todo, mean_data, monthly_stats>>

NextAgg == AggregateFlow \/ Reaggregate

SpecAgg == InitAgg /\ [][NextAgg]_vars

----------------------------------------------------------------------------
(* Properties of process_swatmf_data *)

\* a step of the scan read one more line
ReadsLine == Len(lines') = Len(lines) + 1 /\ SubSeq(lines', 1, Len(lines)) = lines
LineRead == lines'[Len(lines')]

IsMonthLine(l) == Contains(l, W_month)

\* a 'month:' line whose tokens 1 and 3 are both integers
HeaderParses(l) ==
    /\ IsMonthLine(l)
    /\ Len(Split(l)) >= 4
    /\ IsInt(Split(l)[2])
    /\ IsInt(Split(l)[4])

\* a line of exactly four tokens int, int, int, float that is no 'month:' or 'Layer' line
ValidDataLine(l) ==
    /\ ~IsMonthLine(l)
    /\ ~Contains(l, W_Layer)
    /\ Len(Split(l)) = 4
    /\ \A i \in 1..3 : IsInt(Split(l)[i])
    /\ IsFloat(Split(l)[4])

\* some header of the prefix parsed both its month and its year
ContextIn(prefix) == \E j \in 1..Len(prefix) : HeaderParses(prefix[j])

\* the position of the last header of the prefix that parsed, 0 if none
LastHeader(prefix) ==
    IF ContextIn(prefix)
    THEN CHOOSE j \in 1..Len(prefix) :
            /\ HeaderParses(prefix[j])
            /\ \A k \in (j + 1)..Len(prefix) : ~HeaderParses(prefix[k])
    ELSE 0

\* C1: a valid four-token data line read after a header whose month and year
\* both parsed appends exactly one record at the end of the output; its layer,
\* row, column and rate are the values of the line's tokens and its year and
\* month are the (defined) current_year and current_month of the parser.
C1_ValidLineEmitsRecord ==
    [][ (ReadsLine /\ ValidDataLine(LineRead) /\ ContextIn(lines)) =>
            LET t == Split(LineRead)
            IN  /\ current_year # None /\ current_month # None
                /\ data' = Append(data, <<current_year, current_month, IntVal(t[1]),
                                          IntVal(t[2]), IntVal(t[3]), FloatVal(t[4])>>) ]_vars

\* two valid data lines with different rates were read under a parsed header
\* and their records are in the output in the order of the lines
C1_Witness ==
    /\ pc = "done"
    /\ Len(lines) = 3 /\ HeaderParses(lines[1])
    /\ ValidDataLine(lines[2]) /\ ValidDataLine(lines[3])
    /\ Len(result) = 2
    /\ result[1][6] = <<5, 2>> /\ result[2][6] = <<-3, 1>>
    /\ result[1][1] = Some(1990) /\ result[1][2] = Some(3)
    /\ result[1][4] = 5 /\ result[1][5] = 10

RECURSIVE CountValidUnderContext(_)
CountValidUnderContext(prefix) ==
    IF prefix = <<>> THEN 0
    ELSE LET init == SubSeq(prefix, 1, Len(prefix) - 1)
         IN  CountValidUnderContext(init)
               + (IF ValidDataLine(prefix[Len(prefix)]) /\ ContextIn(init) THEN 1 ELSE 0)

\* C2: the number of emitted records equals the number of valid data lines
\* read under a month/year context, and no record has an undefined year or month.
C2_CountMatchesValidLines ==
    /\ Len(data) = CountValidUnderContext(lines)
    /\ \A i \in 1..Len(data) : data[i][1] # None /\ data[i][2] # None

\* a line that is dropped by one of the two try blocks or by the token count
Malformed(l) ==
    \/ IsMonthLine(l) /\ ~HeaderParses(l)
    \/ /\ ~IsMonthLine(l) /\ ~Contains(l, W_Layer) /\ Strip(l) # <<>>
       /\ ~ValidDataLine(l)

\* C4: no step of the scan raises, and a malformed line adds no record and
\* leaves the scan running.
C4_NoExceptionEscapes ==
    [][ /\ pc' \in {"scan", "done"}
        /\ (ReadsLine /\ Malformed(LineRead)) => (data' = data /\ pc' = "scan") ]_vars

\* a file holding a 'month:' line with fewer than 4 tokens, a 'month:' line
\* with a non-integer token and a data line with a non-numeric token was
\* scanned to its end and the result returned
C4_Witness ==
    /\ pc = "done"
    /\ \E i \in 1..Len(lines) : IsMonthLine(lines[i]) /\ Len(Split(lines[i])) < 4
    /\ \E i \in 1..Len(lines) :
          IsMonthLine(lines[i]) /\ Len(Split(lines[i])) >= 4 /\ ~HeaderParses(lines[i])
    /\ \E i \in 1..Len(lines) :
          ~IsMonthLine(lines[i]) /\ Len(Split(lines[i])) = 4 /\ Malformed(lines[i])
    /\ result = <<>>

\* C7: a 'month:' line that fails to parse leaves current_month and
\* current_year as they were, and every record appended carries the month and
\* the year of the most recent header that parsed.
C7_FailedHeaderKeepsContext ==
    [][ /\ (ReadsLine /\ IsMonthLine(LineRead) /\ ~HeaderParses(LineRead)) =>
              (current_month' = current_month /\ current_year' = current_year)
        /\ (ReadsLine /\ Len(data') = Len(data) + 1 /\ ContextIn(lines)) =>
              LET h == Split(lines[LastHeader(lines)])
                  r == data'[Len(data')]
              IN  r[1] = Some(IntVal(h[4])) /\ r[2] = Some(IntVal(h[2])) ]_vars

----------------------------------------------------------------------------
(* Properties of read_recharge_file *)

\* the position of the most recent line of the prefix that contains 'month:', 0 if none
LastMonthLine(prefix) ==
    IF \E j \in 1..Len(prefix) : IsMonthLine(prefix[j])
    THEN CHOOSE j \in 1..Len(prefix) :
            /\ IsMonthLine(prefix[j])
            /\ \A k \in (j + 1)..Len(prefix) : ~IsMonthLine(prefix[k])
    ELSE 0

\* the key (year, month) written on a header line that parses
KeyOf(l) == <<Some(IntVal(Split(l)[4])), Some(IntVal(Split(l)[2]))>>

\* a line that reaches the last two branches of the scan
IsRowBranchLine(l) == ~IsMonthLine(l) /\ ~IsMarker(Strip(l)) /\ Strip(l) # <<>>

\* more than one token, all of them floats
IsNumericRow(l) ==
    /\ IsRowBranchLine(l)
    /\ Len(Split(l)) > 1
    /\ \A i \in 1..Len(Split(l)) : IsFloat(Split(l)[i])

\* the accumulators of a block all have the fixed shape, cell for cell
HasGridShape(rows) ==
    /\ Len(rows) = GridRows
    /\ \A i \in 1..Len(rows) : Len(rows[i]) = GridCols

\* C3: when read_recharge_file returns, every block that accumulated rows had
\* exactly the fixed number of rows and of columns, and its grid has the cells
\* of the input rows in their places; any other block ended in an error.
C3_ShapeMismatchIsAnError ==
    pc = "done" =>
        \A k \in DOMAIN data :
            data[k] # <<>> => (HasGridShape(data[k]) /\ result[k] = data[k])

\* C8: a row is appended only while reading_data is true, and to the key of
\* the most recent 'month:' line, which parsed; a numeric row read while
\* reading_data is true is appended; a row line with a single token or a
\* non-float token changes nothing and leaves reading_data true.
C8_RowsFollowParsedHeader ==
    [][ (ReadsLine /\ IsRowBranchLine(LineRead)) =>
            LET m == LastMonthLine(lines)
                t == Split(LineRead)
            IN  /\ (data' # data \/ (reading_data /\ IsNumericRow(LineRead))) =>
                      /\ reading_data
                      /\ m > 0 /\ HeaderParses(lines[m])
                      /\ KeyOf(lines[m]) \in DOMAIN data
                      /\ data' = [data EXCEPT ![KeyOf(lines[m])] =
                                     Append(@, [i \in 1..Len(t) |-> FloatVal(t[i])])]
                /\ (reading_data /\ ~IsNumericRow(LineRead)) =>
                      (data' = data /\ reading_data' /\ pc' = "scan") ]_vars

\* under a parsed header a row with a non-float token was dropped and the
\* two rows after it were appended, in order, to that header's key
C8_Witness ==
    /\ Len(lines) = 4
    /\ HeaderParses(lines[1])
    /\ IsRowBranchLine(lines[2]) /\ Len(Split(lines[2])) > 1 /\ ~IsNumericRow(lines[2])
    /\ IsNumericRow(lines[3])
    /\ IsNumericRow(lines[4])
    /\ data[KeyOf(lines[1])] = << [i \in 1..GridCols |-> <<5, 2>>], [i \in 1..GridRows |-> <<1, 1>>] >>

\* C9: a line that starts with 'Grid data:' or 'Monthly Averaged Recharge
\* Values' leaves current_year, current_month, reading_data and the
\* accumulators unchanged.
C9_MarkerLinesChangeNothing ==
    [][ (ReadsLine /\ IsMarker(Strip(LineRead))) =>
            UNCHANGED <<current_year, current_month, reading_data, data>> ]_vars

\* C10: while reading_data is true, (current_year, current_month) is a key of
\* the accumulator map, and no row append ever fails on a missing key.
C10_ReadingImpliesKey ==
    /\ pc # "KeyError"
    /\ (pc = "scan" /\ reading_data) => <<current_year, current_month>> \in DOMAIN data

\* a header parsed, then a header whose month parses and whose year does not,
\* then a numeric row: the scan is still running and the row was not appended
C10_Witness ==
    /\ pc = "scan"
    /\ Len(lines) = 3
    /\ HeaderParses(lines[1])
    /\ IsMonthLine(lines[2]) /\ Len(Split(lines[2])) >= 4 /\ IsInt(Split(lines[2])[2])
    /\ ~HeaderParses(lines[2])
    /\ IsNumericRow(lines[3])
    /\ current_month # KeyOf(lines[1])[2]
    /\ data[KeyOf(lines[1])] = <<>>

----------------------------------------------------------------------------
(* Properties of compute_monthly_mean *)

\* the keys of the input with this month
KeysOfMonth(m) == {k \in DOMAIN data : k[2] = m}

\* the keys among ks whose grid has a value in cell (i, j)
Present(ks, i, j) == {k \in ks : ~IsNaN(data[k][i][j])}

\* the sum of the (integer) values of cell (i, j) over the keys ks
RECURSIVE CellSum(_, _, _)
CellSum(ks, i, j) ==
    IF ks = {} THEN 0
    ELSE LET k == CHOOSE k \in ks : TRUE
         IN  data[k][i][j][1] + CellSum(ks \ {k}, i, j)

\* C5: the result has exactly the months of the input, and each cell of a
\* month's grid is the sum of the non-missing values of that cell over the
\* grids of that month divided by their number, or missing if there is none.
C5_MeanOverPresentValues ==
    pc = "done" =>
        /\ DOMAIN result = {k[2] : k \in DOMAIN data}
        /\ \A m \in DOMAIN result : \A i \in 1..GridRows : \A j \in 1..GridCols :
              LET ks == Present(KeysOfMonth(m), i, j)
                  r == result[m][i][j]
              IN  IF ks = {} THEN IsNaN(r)
                  ELSE r[2] > 0 /\ r[1] * Cardinality(ks) = CellSum(ks, i, j) * r[2]

\* month 1 has an all-5 grid and an all-missing grid and its mean is all 5;
\* month 2 has a cell present in one year only and a cell missing in both
C5_Witness ==
    /\ pc = "done"
    /\ {data[k] : k \in KeysOfMonth(Some(1))} = {GridWith(<<5, 1>>, <<5, 1>>), GridWith(NaN, NaN)}
    /\ result[Some(1)] = GridWith(<<5, 1>>, <<5, 1>>)
    /\ {data[k] : k \in KeysOfMonth(Some(2))} = {GridWith(<<2, 1>>, NaN), GridWith(NaN, NaN)}
    /\ result[Some(2)] = GridWith(<<2, 1>>, NaN)

----------------------------------------------------------------------------
(* Properties of the flow aggregation *)

\* C6 as stated: aggregating monthly_stats again by the same keys gives the
\* same means and the same standard deviations.
C6_ReaggregationIsIdentity ==
    pc = "done" => restats = monthly_stats

\* C6 as amended: aggregating monthly_stats again gives the same groups with
\* the same means, and the standard deviation of every group is NaN.
C6_ReaggregationKeepsMeans ==
    pc = "done" =>
        restats = { [Month |-> r.Month, Row |-> r.Row, Column |-> r.Column,
                     mean |-> r.mean, std |-> NaN] : r \in monthly_stats }

\* two groups were aggregated again, one of two records with a defined
\* standard deviation and one of a single record
C6_Witness ==
    /\ pc = "done"
    /\ \E r \in monthly_stats : ~IsNaN(r.std) /\ r.std # <<0, 1>> /\ r.mean = <<7, 2>>
    /\ \E r \in monthly_stats : IsNaN(r.std) /\ ~IsNaN(r.mean)
    /\ Cardinality(restats) = 2

----------------------------------------------------------------------------
(* Repeated headers in read_recharge_file *)

\* the position of the last header of the prefix that parsed with this key
LastHeaderOf(prefix, key) ==
    CHOOSE j \in 1..Len(prefix) :
        /\ HeaderParses(prefix[j]) /\ KeyOf(prefix[j]) = key
        /\ \A k \in (j + 1)..Len(prefix) : ~(HeaderParses(prefix[k]) /\ KeyOf(prefix[k]) = key)

\* the values of the numeric rows of the prefix from position i up to the
\* next 'month:' line
RECURSIVE RowsFrom(_, _)
RowsFrom(prefix, i) ==
    IF i > Len(prefix) \/ IsMonthLine(prefix[i]) THEN <<>>
    ELSE IF IsNumericRow(prefix[i])
        THEN <<[n \in 1..Len(Split(prefix[i])) |-> FloatVal(Split(prefix[i])[n])]>>
                 \o RowsFrom(prefix, i + 1)
    ELSE RowsFrom(prefix, i + 1)

\* C11: a header that parses leaves its key with an empty accumulator, also
\* when the key already had rows, and changes no other key; the grid returned
\* for a key holds, in row-major order, only the rows that follow the last
\* header with that key (all missing if there are none).
C11_RepeatedHeaderResets ==
    [][ /\ (ReadsLine /\ HeaderParses(LineRead)) =>
              /\ DOMAIN data' = DOMAIN data \cup {KeyOf(LineRead)}
              /\ data'[KeyOf(LineRead)] = <<>>
              /\ \A k \in DOMAIN data : k # KeyOf(LineRead) => data'[k] = data[k]
        /\ (pc = "scan" /\ pc' = "done") =>
              \A k \in DOMAIN result' :
                  LET rows == RowsFrom(lines, LastHeaderOf(lines, k) + 1)
                  IN  \A i \in 1..GridRows : \A j \in 1..GridCols :
                          result'[k][i][j] =
                              IF rows = <<>> THEN NaN
                              ELSE Flatten(rows)[(i - 1) * GridCols + j] ]_vars

\* a header, a row, the same header again and another row: the key holds the
\* second row only
C11_Witness ==
    /\ Len(lines) = 4
    /\ HeaderParses(lines[1]) /\ lines[3] = lines[1]
    /\ IsNumericRow(lines[2]) /\ IsNumericRow(lines[4])
    /\ lines[2] # lines[4]
    /\ data[KeyOf(lines[1])] = << [i \in 1..GridCols |-> <<5, 2>>] >>

====
